---- MODULE Spec2Model ----
(***************************************************************************)
(* Ownership model of the lldb.rs handle wrappers (SBError, SBPlatform,    *)
(* RemoteConnectOptions) over a disposal-tracking native heap, and of the  *)
(* remote URL serializers (RemoteUrl::serialize and                        *)
(* RemoteConnectOptions::serialize_url).                                   *)
(***************************************************************************)
EXTENDS Integers, Sequences, FiniteSets, TLC

\* ------------------------------------------------------------------------
\* Bounds
\* ------------------------------------------------------------------------
MaxObj == 3      \* native objects the engine hands out in one run
MaxSlots == 2    \* wrappers the caller holds at the same time

Slots == 1..MaxSlots

VARIABLES
    heap,     \* native heap: sequence of native objects, index = raw reference
    held,     \* the live wrappers, oldest first: held[s] = raw reference wrapper s owns
    ret,      \* outcome of the last operation
    trace,    \* native calls issued by the last operation, in order
    uaf,      \* some native call received a raw reference after its disposal
    leaked,   \* URL buffers given up with Box::leak
    url,      \* the RemoteUrl value under construction
    cstr,     \* last result of RemoteUrl::serialize on url
    ocstr     \* last result of RemoteConnectOptions::serialize_url on url's fields

vars == <<heap, held, ret, trace, uaf, leaked, url, cstr, ocstr>>
heapVars == <<heap, held, ret, trace, uaf, leaked>>
urlVars == <<url, cstr, ocstr>>

\* ------------------------------------------------------------------------
\* Text: a string is a sequence of characters; NUL is the zero byte
\* ------------------------------------------------------------------------
NUL == "NUL"

Text(s) ==
    CASE s = "listen" -> <<"l","i","s","t","e","n">>
      [] s = "accept" -> <<"a","c","c","e","p","t">>
      [] s = "unix-accept" -> <<"u","n","i","x","-","a","c","c","e","p","t">>
      [] s = "connect" -> <<"c","o","n","n","e","c","t">>
      [] s = "tcp-connect" -> <<"t","c","p","-","c","o","n","n","e","c","t">>
      [] s = "udp" -> <<"u","d","p">>
      [] s = "unix-connect" -> <<"u","n","i","x","-","c","o","n","n","e","c","t">>
      [] s = "unix-abstract-connect" ->
            <<"u","n","i","x","-","a","b","s","t","r","a","c","t","-",
              "c","o","n","n","e","c","t">>
      [] s = "fd" -> <<"f","d">>
      [] s = "file" -> <<"f","i","l","e">>
      [] s = "://" -> <<":","/","/">>
      [] s = ":" -> <<":">>
      [] s = "/" -> <<"/">>

HasNul(t) == \E i \in 1..Len(t) : t[i] = NUL

Digit(d) ==
    CASE d = 0 -> "0" [] d = 1 -> "1" [] d = 2 -> "2" [] d = 3 -> "3"
      [] d = 4 -> "4" [] d = 5 -> "5" [] d = 6 -> "6" [] d = 7 -> "7"
      [] d = 8 -> "8" [] d = 9 -> "9"

RECURSIVE Decimal(_)
Decimal(n) == IF n < 10 THEN <<Digit(n)>>
              ELSE Append(Decimal(n \div 10), Digit(n % 10))

\* ------------------------------------------------------------------------
\* Inputs
\* ------------------------------------------------------------------------
Schemes == {"Listen", "Accept", "UnixAccept", "Connect", "TcpConnect", "Udp",
            "UnixConnect", "UnixAbstractConnect", "Fd", "File"}
Hosts == { <<"l","o">>, <<"h",NUL,"x">> }
Ports == {0, 1234, 65535}
Paths == { <<"v","/","l">>, <<"p",NUL>>, <<>> }
\* Option<T>: Some(x) and the two None values
Some(x) == [some |-> TRUE, v |-> x]
NonePort == [some |-> FALSE, v |-> 0]
NonePath == [some |-> FALSE, v |-> <<>>]
OptPorts == {Some(p) : p \in Ports} \cup {NonePort}
OptPaths == {Some(p) : p \in Paths} \cup {NonePath}
LaunchInfos == {1}
Pids == {7}

\* ------------------------------------------------------------------------
\* RemoteUrlScheme::as_str and RemoteScheme::as_str
\* ------------------------------------------------------------------------
RemoteUrlScheme_as_str(scheme) ==
    CASE scheme = "Listen" -> Text("listen")
      [] scheme = "Accept" -> Text("accept")
      [] scheme = "UnixAccept" -> Text("unix-accept")
      [] scheme = "Connect" -> Text("connect")
      [] scheme = "TcpConnect" -> Text("tcp-connect")
      [] scheme = "Udp" -> Text("udp")
      [] scheme = "UnixConnect" -> Text("unix-connect")
      [] scheme = "UnixAbstractConnect" -> Text("unix-abstract-connect")
      [] scheme = "Fd" -> Text("fd")
      [] scheme = "File" -> Text("file")

\* variant: the tokens of UnixConnect and UnixAbstractConnect exchanged
RemoteScheme_as_str_swapped(scheme) ==
    CASE scheme = "Listen" -> Text("listen")
      [] scheme = "Accept" -> Text("accept")
      [] scheme = "UnixAccept" -> Text("unix-accept")
      [] scheme = "Connect" -> Text("connect")
      [] scheme = "TcpConnect" -> Text("tcp-connect")
      [] scheme = "Udp" -> Text("udp")
      [] scheme = "UnixConnect" -> Text("unix-abstract-connect")
      [] scheme = "UnixAbstractConnect" -> Text("unix-connect")
      [] scheme = "Fd" -> Text("fd")
      [] scheme = "File" -> Text("file")

RemoteScheme_as_str(scheme) ==
    CASE scheme = "Listen" -> Text("listen")
      [] scheme = "Accept" -> Text("accept")
      [] scheme = "UnixAccept" -> Text("unix-accept")
      [] scheme = "Connect" -> Text("connect")
      [] scheme = "TcpConnect" -> Text("tcp-connect")
      [] scheme = "Udp" -> Text("udp")
      [] scheme = "UnixConnect" -> Text("unix-connect")
      [] scheme = "UnixAbstractConnect" -> Text("unix-abstract-connect")
      [] scheme = "Fd" -> Text("fd")
      [] scheme = "File" -> Text("file")

\* CString::new(url).expect("URL doesn't contain nul")
CString_new_expect(bytes) ==
    IF HasNul(bytes) THEN [tag |-> "Panic", bytes |-> <<>>]
    ELSE [tag |-> "CString", bytes |-> bytes]

\* ------------------------------------------------------------------------
\* RemoteUrl
\* ------------------------------------------------------------------------
NoUrl == [scheme |-> "NoUrl", host |-> <<>>, port |-> NonePort, path |-> NonePath]
NotComputed == [tag |-> "NotComputed", bytes |-> <<>>]

RemoteUrl_new(scheme, host) ==
    [scheme |-> scheme, host |-> host, port |-> NonePort, path |-> NonePath]

\* variant: a path already set is kept
RemoteUrl_path_first_wins(u, path) ==
    IF u.path.some THEN u ELSE [u EXCEPT !.path = Some(path)]

RemoteUrl_path(u, path) == [u EXCEPT !.path = Some(path)]

RemoteUrl_port(u, port) == [u EXCEPT !.port = Some(port)]

\* variant: the path written before the port
RemoteUrl_serialize_path_first(u) ==
    LET base == RemoteUrlScheme_as_str(u.scheme) \o Text("://") \o u.host
        withPath == IF ~u.path.some THEN base
                    ELSE base \o Text("/") \o u.path.v
        withPort == IF ~u.port.some THEN withPath
                    ELSE withPath \o Text(":") \o Decimal(u.port.v)
    IN CString_new_expect(withPort)

RemoteUrl_serialize(u) ==
    LET base == RemoteUrlScheme_as_str(u.scheme) \o Text("://") \o u.host
        withPort == IF ~u.port.some THEN base
                    ELSE base \o Text(":") \o Decimal(u.port.v)
        withPath == IF ~u.path.some THEN withPort
                    ELSE withPort \o Text("/") \o u.path.v
    IN CString_new_expect(withPath)

\* RemoteConnectOptions::serialize_url
serialize_url(scheme, host, port, path) ==
    LET base == RemoteScheme_as_str(scheme) \o Text("://") \o host
        withPort == IF ~port.some THEN base
                    ELSE base \o Text(":") \o Decimal(port.v)
        withPath == IF ~path.some THEN withPort
                    ELSE withPort \o Text("/") \o path.v
    IN CString_new_expect(withPath)

\* ------------------------------------------------------------------------
\* Native heap (the engine behind sys::*): every object the engine hands to
\* the binding gets the next raw reference; disposed counts Dispose* calls
\* ------------------------------------------------------------------------
Obj(kind, valid, succ, src) ==
    [kind |-> kind, valid |-> valid, succ |-> succ, disposed |-> 0, src |-> src]

Call(fn, a, b, res, bytes, out) ==
    [fn |-> fn, a |-> a, b |-> b, res |-> res, bytes |-> bytes, out |-> out]

Ret(op, arg, tag, raw, val, nul) ==
    [op |-> op, arg |-> arg, tag |-> tag, raw |-> raw, val |-> val, nul |-> nul]

Fresh(h) == Len(h) + 1

Dispose(h, r) == [h EXCEPT ![r].disposed = @ + 1]

DisposeFn(kind) ==
    CASE kind = "SBError" -> "DisposeSBError"
      [] kind = "SBPlatform" -> "DisposeSBPlatform"
      [] kind = "RemoteConnectOptions" -> "DisposeSBPlatformConnectOptions"

CloneFn(kind) ==
    CASE kind = "SBError" -> "CloneSBError"
      [] kind = "SBPlatform" -> "CloneSBPlatform"
      [] kind = "RemoteConnectOptions" -> "CloneSBPlatformConnectOptions"

IsValidFn(kind) ==
    CASE kind = "SBError" -> "SBErrorIsValid"
      [] kind = "SBPlatform" -> "SBPlatformIsValid"

\* the caller can keep one more wrapper
HasRoom(hd) == Len(hd) < MaxSlots

\* the wrapper at position s goes away
Remove(hd, s) == SubSeq(hd, 1, s - 1) \o SubSeq(hd, s + 1, Len(hd))

\* a raw reference reaches a native call after its disposal
Stale(rs) == \E r \in rs : heap[r].disposed > 0

\* what a native query reads from r: the object's field while it is live,
\* anything once it has been disposed
Obs(r, field) == IF heap[r].disposed = 0 THEN {heap[r][field]} ELSE BOOLEAN

BoolText(b) == IF b THEN "true" ELSE "false"

Holds(s, kind) == s \in DOMAIN held /\ heap[held[s]].kind = kind

Init ==
    /\ heap = <<>>
    /\ held = <<>>
    /\ ret = Ret("init", 0, "Unit", 0, "", FALSE)
    /\ trace = <<>>
    /\ uaf = FALSE
    /\ leaked = 0
    /\ url = NoUrl
    /\ cstr = NotComputed
    /\ ocstr = NotComputed

\* ------------------------------------------------------------------------
\* SBError
\* ------------------------------------------------------------------------
SBError_new ==
    /\ Len(heap) < MaxObj
    /\ HasRoom(held)
    /\ \E v \in BOOLEAN, sc \in BOOLEAN :
         LET r == Fresh(heap) IN
         /\ heap' = Append(heap, Obj("SBError", v, sc, 0))
         /\ held' = Append(held, r)
         /\ ret' = Ret("SBError::new", 0, "Wrapper", r, "", FALSE)
         /\ trace' = <<Call("CreateSBError", 0, 0, r, <<>>, "")>>
    /\ UNCHANGED <<uaf, leaked, urlVars>>

\* wrap(raw): the caller hands over a native object it got from the engine,
\* one that no wrapper owns yet; wrap makes no native call and checks nothing
wrap(kind) ==
    /\ Len(heap) < MaxObj
    /\ HasRoom(held)
    /\ \E v \in BOOLEAN, sc \in BOOLEAN :
         LET r == Fresh(heap) IN
         /\ kind # "SBError" => ~sc
         /\ kind = "RemoteConnectOptions" => v
         /\ heap' = Append(heap, Obj(kind, v, sc, 0))
         /\ held' = Append(held, r)
         /\ ret' = Ret("wrap", r, "Wrapper", r, "", FALSE)
         /\ trace' = <<>>
    /\ UNCHANGED <<uaf, leaked, urlVars>>

\* maybe_wrap(raw): Some(wrapper) when the engine says raw is valid, else None
maybe_wrap(kind) ==
    /\ Len(heap) < MaxObj
    /\ HasRoom(held)
    /\ \E v \in BOOLEAN, sc \in BOOLEAN :
         LET r == Fresh(heap) IN
         /\ kind # "SBError" => ~sc
         /\ heap' = Append(heap, Obj(kind, v, sc, 0))
         /\ trace' = <<Call(IsValidFn(kind), r, 0, 0, <<>>, BoolText(v))>>
         /\ IF v
            THEN /\ held' = Append(held, r)
                 /\ ret' = Ret("maybe_wrap", r, "Some", r, "", FALSE)
            ELSE /\ held' = held
                 /\ ret' = Ret("maybe_wrap", r, "None", 0, "", FALSE)
    /\ UNCHANGED <<uaf, leaked, urlVars>>

is_valid(s) ==
    /\ s \in DOMAIN held
    /\ heap[held[s]].kind \in {"SBError", "SBPlatform"}
    /\ \E b \in Obs(held[s], "valid") :
         /\ ret' = Ret("is_valid", held[s], "Value", 0, BoolText(b), FALSE)
         /\ trace' = <<Call(IsValidFn(heap[held[s]].kind), held[s], 0, 0, <<>>,
                            BoolText(b))>>
    /\ uaf' = (uaf \/ Stale({held[s]}))
    /\ UNCHANGED <<heap, held, leaked, urlVars>>

is_success(s) ==
    /\ Holds(s, "SBError")
    /\ \E b \in Obs(held[s], "succ") :
         /\ ret' = Ret("is_success", held[s], "Value", 0, BoolText(b), FALSE)
         /\ trace' = <<Call("SBErrorSuccess", held[s], 0, 0, <<>>, BoolText(b))>>
    /\ uaf' = (uaf \/ Stale({held[s]}))
    /\ UNCHANGED <<heap, held, leaked, urlVars>>

\* variant: the failure is swallowed
into_result_tag_swallow(success) == "Ok"

into_result_tag(success) == IF success THEN "Ok" ELSE "Err"

\* into_result(self): Ok drops self at the end of the call, Err moves it out
into_result(s) ==
    /\ Holds(s, "SBError")
    /\ \E b \in Obs(held[s], "succ") :
         LET r == held[s]
             tag == into_result_tag(b)
             q == Call("SBErrorSuccess", r, 0, 0, <<>>, BoolText(b))
         IN
         IF tag = "Ok"
         THEN /\ heap' = Dispose(heap, r)
              /\ held' = Remove(held, s)
              /\ ret' = Ret("into_result", r, "Ok", 0, "", FALSE)
              /\ trace' = <<q, Call("DisposeSBError", r, 0, 0, <<>>, "")>>
         ELSE /\ heap' = heap
              /\ held' = held
              /\ ret' = Ret("into_result", r, "Err", r, "", FALSE)
              /\ trace' = <<q>>
    /\ uaf' = (uaf \/ Stale({held[s]}))
    /\ UNCHANGED <<leaked, urlVars>>

\* ------------------------------------------------------------------------
\* Clone and Drop of the three handle kinds
\* ------------------------------------------------------------------------
\* variant: the raw reference is copied instead of the one sys::Clone* returns
CloneRef_copy(h, r) == r

\* the raw reference the clone wraps: the one sys::Clone*(self.raw) returns
CloneRef(h, r) == Fresh(h)

clone(s) ==
    /\ s \in DOMAIN held
    /\ Len(heap) < MaxObj
    /\ HasRoom(held)
    /\ \E v \in Obs(held[s], "valid"), sc \in Obs(held[s], "succ") :
         LET r == held[s]
             c == CloneRef(heap, r)
         IN
         /\ heap' = Append(heap, Obj(heap[r].kind, v, sc, r))
         /\ held' = Append(held, c)
         /\ ret' = Ret("clone", r, "Wrapper", c, "", FALSE)
         /\ trace' = <<Call(CloneFn(heap[r].kind), r, 0, Fresh(heap), <<>>, "")>>
    /\ uaf' = (uaf \/ Stale({held[s]}))
    /\ UNCHANGED <<leaked, urlVars>>

drop(s) ==
    /\ s \in DOMAIN held
    /\ heap' = Dispose(heap, held[s])
    /\ held' = Remove(held, s)
    /\ ret' = Ret("drop", held[s], "Unit", 0, "", FALSE)
    /\ trace' = <<Call(DisposeFn(heap[held[s]].kind), held[s], 0, 0, <<>>, "")>>
    /\ UNCHANGED <<uaf, leaked, urlVars>>

\* ------------------------------------------------------------------------
\* RemoteConnectOptions::new
\* ------------------------------------------------------------------------
RemoteConnectOptions_new(scheme, host, port, path) ==
    LET c == serialize_url(scheme, host, port, path) IN
    IF c.tag = "Panic"
    THEN /\ ret' = Ret("RemoteConnectOptions::new", 0, "Panic", 0, "", HasNul(host))
         /\ trace' = <<>>
         /\ UNCHANGED <<heap, held, uaf, leaked, urlVars>>
    ELSE /\ Len(heap) < MaxObj
         /\ HasRoom(held)
         /\ LET r == Fresh(heap) IN
            /\ heap' = Append(heap, Obj("RemoteConnectOptions", TRUE, FALSE, 0))
            /\ held' = Append(held, r)
            /\ ret' = Ret("RemoteConnectOptions::new", 0, "Wrapper", r, "",
                          HasNul(host))
            /\ trace' = <<Call("CreateSBPlatformConnectOptions", 0, 0, r,
                               c.bytes, "")>>
         /\ leaked' = leaked + 1
         /\ UNCHANGED <<uaf, urlVars>>

\* ------------------------------------------------------------------------
\* SBPlatform: connect, launch, kill
\* ------------------------------------------------------------------------
\* variant: the failure is swallowed
connect_tag_swallow(success) == "Ok"

connect_tag(success) == IF success THEN "Ok" ELSE "Err"

launch_tag(success) == IF success THEN "Ok" ELSE "Err"

kill_tag(success) == IF success THEN "Ok" ELSE "Err"

\* variant: the error object is disposed although Err hands it to the caller
ResultHeap_always(h, e, tag) == Dispose(h, e)

\* the native error object once the call returns: Ok drops the wrapper
\* (one DisposeSBError), Err moves it to the caller
ResultHeap(h, e, tag) == IF tag = "Ok" THEN Dispose(h, e) ELSE h

ResultTrace(e, tag) ==
    IF tag = "Ok" THEN <<Call("DisposeSBError", e, 0, 0, <<>>, "")>> ELSE <<>>

ResultHeld(hd, e, tag) ==
    IF tag = "Err" THEN Append(hd, e) ELSE hd

\* body of connect_remote_with_options on platform p and options o, from the
\* heap h and the wrappers hd; v and sc are the engine's answer
ConnectBody(op, h, hd, p, o, v, sc, pre, nul) ==
    LET e == Fresh(h)
        tag == connect_tag(sc)
        h1 == Append(h, Obj("SBError", v, sc, 0))
        h2 == Dispose(ResultHeap(h1, e, tag), o)
    IN
    /\ tag = "Err" => HasRoom(hd)
    /\ heap' = h2
    /\ held' = ResultHeld(hd, e, tag)
    /\ ret' = Ret(op, p, tag, IF tag = "Err" THEN e ELSE 0, "", nul)
    /\ trace' = pre
                \o <<Call("SBPlatformConnectRemote", p, o, e, <<>>, ""),
                     Call("SBErrorSuccess", e, 0, 0, <<>>, BoolText(sc))>>
                \o ResultTrace(e, tag)
                \o <<Call("DisposeSBPlatformConnectOptions", o, 0, 0, <<>>, "")>>

connect_remote_with_options(sp, so) ==
    /\ Holds(sp, "SBPlatform")
    /\ Holds(so, "RemoteConnectOptions")
    /\ Len(heap) < MaxObj
    /\ \E v \in BOOLEAN, sc \in BOOLEAN :
         ConnectBody("connect_remote_with_options", heap,
                     Remove(held, so), held[sp], held[so], v, sc, <<>>,
                     FALSE)
    /\ uaf' = (uaf \/ Stale({held[sp], held[so]}))
    /\ UNCHANGED <<leaked, urlVars>>

connect_remote(sp, scheme, host, port) ==
    /\ Holds(sp, "SBPlatform")
    /\ LET c == serialize_url(scheme, host, Some(port), NonePath) IN
       IF c.tag = "Panic"
       THEN /\ ret' = Ret("connect_remote", held[sp], "Panic", 0, "", HasNul(host))
            /\ trace' = <<>>
            /\ UNCHANGED <<heap, held, uaf, leaked, urlVars>>
       ELSE /\ Len(heap) + 2 <= MaxObj
            /\ \E v \in BOOLEAN, sc \in BOOLEAN :
                 LET o == Fresh(heap)
                     h0 == Append(heap, Obj("RemoteConnectOptions", TRUE, FALSE, 0))
                 IN ConnectBody("connect_remote", h0, held, held[sp], o, v, sc,
                                <<Call("CreateSBPlatformConnectOptions", 0, 0, o,
                                       c.bytes, "")>>,
                                HasNul(host))
            /\ leaked' = leaked + 1
            /\ uaf' = (uaf \/ Stale({held[sp]}))
            /\ UNCHANGED urlVars

launch(sp, info) ==
    /\ Holds(sp, "SBPlatform")
    /\ Len(heap) < MaxObj
    /\ \E v \in BOOLEAN, sc \in BOOLEAN :
         LET p == held[sp]
             e == Fresh(heap)
             tag == launch_tag(sc)
         IN
         /\ tag = "Err" => HasRoom(held)
         /\ heap' = ResultHeap(Append(heap, Obj("SBError", v, sc, 0)), e, tag)
         /\ held' = ResultHeld(held, e, tag)
         /\ ret' = Ret("launch", p, tag, IF tag = "Err" THEN e ELSE 0, "", FALSE)
         /\ trace' = <<Call("SBPlatformLaunch", p, info, e, <<>>, ""),
                       Call("SBErrorSuccess", e, 0, 0, <<>>, BoolText(sc))>>
                     \o ResultTrace(e, tag)
    /\ uaf' = (uaf \/ Stale({held[sp]}))
    /\ UNCHANGED <<leaked, urlVars>>

kill(sp, pid) ==
    /\ Holds(sp, "SBPlatform")
    /\ Len(heap) < MaxObj
    /\ \E v \in BOOLEAN, sc \in BOOLEAN :
         LET p == held[sp]
             e == Fresh(heap)
             tag == kill_tag(sc)
         IN
         /\ tag = "Err" => HasRoom(held)
         /\ heap' = ResultHeap(Append(heap, Obj("SBError", v, sc, 0)), e, tag)
         /\ held' = ResultHeld(held, e, tag)
         /\ ret' = Ret("kill", p, tag, IF tag = "Err" THEN e ELSE 0, "", FALSE)
         /\ trace' = <<Call("SBPlatformKill", p, pid, e, <<>>, ""),
                       Call("SBErrorSuccess", e, 0, 0, <<>>, BoolText(sc))>>
                     \o ResultTrace(e, tag)
    /\ uaf' = (uaf \/ Stale({held[sp]}))
    /\ UNCHANGED <<leaked, urlVars>>

\* ------------------------------------------------------------------------
\* SBPlatform: descriptive queries
\* ------------------------------------------------------------------------
TextQueries == {"working_directory", "name", "triple", "hostname", "os_build",
                "os_description"}
NumQueries == {"os_major_version", "os_minor_version", "os_update_version"}

TextFn(q) ==
    CASE q = "working_directory" -> "SBPlatformGetWorkingDirectory"
      [] q = "name" -> "SBPlatformGetName"
      [] q = "triple" -> "SBPlatformGetTriple"
      [] q = "hostname" -> "SBPlatformGetHostname"
      [] q = "os_build" -> "SBPlatformGetOSBuild"
      [] q = "os_description" -> "SBPlatformGetOSDescription"

NumFn(q) ==
    CASE q = "os_major_version" -> "SBPlatformGetOSMajorVersion"
      [] q = "os_minor_version" -> "SBPlatformGetOSMinorVersion"
      [] q = "os_update_version" -> "SBPlatformGetOSUpdateVersion"

\* what the engine may answer to a text query: a C string that is valid
\* UTF-8 (possibly empty), one that is not, or a null pointer
BadUtf8 == "<not utf-8>"
NullPtr == "<null>"
GoodTexts == {"", "host"}
NativeTexts == GoodTexts \cup {BadUtf8, NullPtr}
NativeNums == {"0", "10"}

\* CStr::from_ptr(p).to_str(): Ok(s) => s, otherwise panic!("Invalid string?");
\* from_ptr of a null pointer is undefined behaviour
TextResults(nt) ==
    IF nt = NullPtr
    THEN {[tag |-> t, val |-> x] : t \in {"Value", "Panic", "Crash"},
                                    x \in GoodTexts}
    ELSE IF nt = BadUtf8 THEN {[tag |-> "Panic", val |-> ""]}
         ELSE {[tag |-> "Value", val |-> nt]}

text_query(sp, q) ==
    /\ Holds(sp, "SBPlatform")
    /\ \E nt \in NativeTexts :
         \E res \in TextResults(nt) :
           /\ ret' = Ret(q, held[sp], res.tag, 0, res.val, FALSE)
           /\ trace' = <<Call(TextFn(q), held[sp], 0, 0, <<>>, nt)>>
    /\ uaf' = (uaf \/ Stale({held[sp]}))
    /\ UNCHANGED <<heap, held, leaked, urlVars>>

num_query(sp, q) ==
    /\ Holds(sp, "SBPlatform")
    /\ \E n \in NativeNums :
         /\ ret' = Ret(q, held[sp], "Value", 0, n, FALSE)
         /\ trace' = <<Call(NumFn(q), held[sp], 0, 0, <<>>, n)>>
    /\ uaf' = (uaf \/ Stale({held[sp]}))
    /\ UNCHANGED <<heap, held, leaked, urlVars>>

\* ------------------------------------------------------------------------
\* RemoteUrl builder steps
\* ------------------------------------------------------------------------
UrlNew(scheme, host) ==
    /\ url' = RemoteUrl_new(scheme, host)
    /\ cstr' = NotComputed
    /\ ocstr' = NotComputed
    /\ UNCHANGED heapVars

UrlPath(path) ==
    /\ url # NoUrl
    /\ url' = RemoteUrl_path(url, path)
    /\ cstr' = NotComputed
    /\ ocstr' = NotComputed
    /\ UNCHANGED heapVars

UrlPort(port) ==
    /\ url # NoUrl
    /\ url' = RemoteUrl_port(url, port)
    /\ cstr' = NotComputed
    /\ ocstr' = NotComputed
    /\ UNCHANGED heapVars

UrlSerialize ==
    /\ url # NoUrl
    /\ cstr' = RemoteUrl_serialize(url)
    /\ UNCHANGED <<url, ocstr, heapVars>>

\* the same fields given to RemoteConnectOptions::serialize_url, the scheme
\* matched by variant name
OptionsSerializeUrl ==
    /\ url # NoUrl
    /\ ocstr' = serialize_url(url.scheme, url.host, url.port, url.path)
    /\ UNCHANGED <<url, cstr, heapVars>>

\* ------------------------------------------------------------------------
\* Specifications
\* ------------------------------------------------------------------------
Kinds == {"SBError", "SBPlatform", "RemoteConnectOptions"}

\* inputs of the connect operations in the handle specifications
ConnSchemes == {"TcpConnect"}
ConnPorts == {1234}
ConnOptPorts == {Some(1234), NonePort}
ConnOptPaths == {Some(<<"v","/","l">>), NonePath}

\* handle lifetimes: every operation that creates, moves or releases a wrapper
Next ==
    \/ SBError_new
    \/ \E k \in Kinds : wrap(k)
    \/ \E k \in {"SBError", "SBPlatform"} : maybe_wrap(k)
    \/ \E s \in Slots : is_valid(s)
    \/ \E s \in Slots : is_success(s)
    \/ \E s \in Slots : into_result(s)
    \/ \E s \in Slots : clone(s)
    \/ \E s \in Slots : drop(s)
    \/ \E sc \in ConnSchemes, h \in Hosts, p \in ConnOptPorts, q \in ConnOptPaths :
         RemoteConnectOptions_new(sc, h, p, q)
    \/ \E sp \in Slots, so \in Slots : connect_remote_with_options(sp, so)
    \/ \E sp \in Slots, sc \in ConnSchemes, h \in Hosts, p \in ConnPorts :
         connect_remote(sp, sc, h, p)
    \/ \E sp \in Slots, i \in LaunchInfos : launch(sp, i)
    \/ \E sp \in Slots, pid \in Pids : kill(sp, pid)

Spec == Init /\ [][Next]_vars

\* a platform handle, valid or not, under its mutating operations and its
\* descriptive queries
NextPlatform ==
    \/ wrap("SBPlatform")
    \/ \E s \in Slots : is_valid(s)
    \/ \E s \in Slots : drop(s)
    \/ \E sc \in ConnSchemes, h \in Hosts, p \in ConnOptPorts, q \in ConnOptPaths :
         RemoteConnectOptions_new(sc, h, p, q)
    \/ \E sp \in Slots, so \in Slots : connect_remote_with_options(sp, so)
    \/ \E sp \in Slots, sc \in ConnSchemes, h \in Hosts, p \in ConnPorts :
         connect_remote(sp, sc, h, p)
    \/ \E sp \in Slots, i \in LaunchInfos : launch(sp, i)
    \/ \E sp \in Slots, pid \in Pids : kill(sp, pid)
    \/ \E sp \in Slots, q \in TextQueries : text_query(sp, q)
    \/ \E sp \in Slots, q \in NumQueries : num_query(sp, q)

SpecPlatform == Init /\ [][NextPlatform]_vars

NextUrl ==
    \/ \E sc \in Schemes, h \in Hosts : UrlNew(sc, h)
    \/ \E p \in Paths : UrlPath(p)
    \/ \E p \in Ports : UrlPort(p)
    \/ UrlSerialize
    \/ OptionsSerializeUrl

SpecUrl == Init /\ [][NextUrl]_vars

\* ------------------------------------------------------------------------
\* Properties
\* ------------------------------------------------------------------------
Holders(r) == {s \in DOMAIN held : held[s] = r}
MutatingOps == {"connect_remote_with_options", "launch", "kill"}
MutatingFns == {"SBPlatformConnectRemote", "SBPlatformLaunch", "SBPlatformKill"}
MutCalls == {i \in 1..Len(trace) : trace[i].fn \in MutatingFns}
Calls(fns) == {i \in 1..Len(trace) : trace[i].fn \in fns}

C2_AllReleasedOnceDropped ==
    held = <<>>
        => \A r \in DOMAIN heap : heap[r].disposed = 1

\* C3: into_result returns Ok exactly when the native error reports success;
\* Err carries the same raw reference, without a native clone and without
\* disposing it; on Ok the object has been disposed exactly once.
C3_IntoResult ==
    ret.op = "into_result" =>
        /\ ret.tag \in {"Ok", "Err"}
        /\ ret.tag = "Ok" <=> heap[ret.arg].succ
        /\ ret.tag = "Err" =>
             /\ ret.raw = ret.arg
             /\ Cardinality(Holders(ret.arg)) = 1
             /\ heap[ret.arg].disposed = 0
             /\ Calls({"CloneSBError", "DisposeSBError"}) = {}
        /\ ret.tag = "Ok" =>
             /\ heap[ret.arg].disposed = 1
             /\ Holders(ret.arg) = {}

C3_Witness ==
    /\ ret.op = "into_result"
    /\ ret.tag = "Err"
    /\ ~heap[ret.arg].succ
    /\ \E r \in DOMAIN heap : heap[r].kind = "SBError" /\ heap[r].succ
                              /\ heap[r].disposed = 1

\* C4: connect_remote_with_options, launch and kill each issue exactly one
\* native call and return Ok exactly when the error object that call returned
\* reports success; otherwise Err carries that very error object.
C4_OneCallDecoded ==
    ret.op \in MutatingOps =>
        /\ Cardinality(MutCalls) = 1
        /\ \A i \in MutCalls :
             /\ trace[i].a = ret.arg
             /\ ret.tag \in {"Ok", "Err"}
             /\ ret.tag = "Ok" <=> heap[trace[i].res].succ
             /\ ret.tag = "Err" =>
                  /\ ret.raw = trace[i].res
                  /\ Cardinality(Holders(ret.raw)) = 1
                  /\ heap[ret.raw].disposed = 0
             /\ ret.tag = "Ok" => heap[trace[i].res].disposed = 1

C4_Witness ==
    /\ ret.op = "connect_remote_with_options"
    /\ ret.tag = "Err"
    /\ ~heap[ret.raw].succ

\* C5: a mutating operation on a platform handle whose is_valid() is false
\* fails fast with InvalidHandle (no native call), and a descriptive query on
\* such a handle returns an empty value.
C5_InvalidHandlePolicy ==
    /\ (ret.op \in MutatingOps /\ ~heap[ret.arg].valid) =>
          /\ ret.tag = "Err"
          /\ ret.val = "InvalidHandle"
          /\ MutCalls = {}
    /\ (ret.op \in TextQueries /\ ~heap[ret.arg].valid) =>
          /\ ret.tag = "Value"
          /\ ret.val = ""

\* the wire format of section 6 written out for the inputs above
SchemeToken(scheme) ==
    CASE scheme = "Listen" -> <<"l","i","s","t","e","n">>
      [] scheme = "Accept" -> <<"a","c","c","e","p","t">>
      [] scheme = "UnixAccept" -> <<"u","n","i","x","-","a","c","c","e","p","t">>
      [] scheme = "Connect" -> <<"c","o","n","n","e","c","t">>
      [] scheme = "TcpConnect" -> <<"t","c","p","-","c","o","n","n","e","c","t">>
      [] scheme = "Udp" -> <<"u","d","p">>
      [] scheme = "UnixConnect" -> <<"u","n","i","x","-","c","o","n","n","e","c","t">>
      [] scheme = "UnixAbstractConnect" ->
            <<"u","n","i","x","-","a","b","s","t","r","a","c","t","-",
              "c","o","n","n","e","c","t">>
      [] scheme = "Fd" -> <<"f","d">>
      [] scheme = "File" -> <<"f","i","l","e">>

PortDigits(port) ==
    CASE port = 0 -> <<"0">>
      [] port = 1234 -> <<"1","2","3","4">>
      [] port = 65535 -> <<"6","5","5","3","5">>
      [] OTHER -> <<"?">>

WireFormat(u) ==
    SchemeToken(u.scheme) \o <<":","/","/">> \o u.host
        \o (IF u.port.some THEN <<":">> \o PortDigits(u.port.v) ELSE <<>>)
        \o (IF u.path.some THEN <<"/">> \o u.path.v ELSE <<>>)

C7_CloneIndependent ==
    /\ ret.op = "clone" =>
         /\ ret.raw # ret.arg
         /\ Len(trace) = 1
         /\ trace[1].fn = CloneFn(heap[ret.arg].kind)
         /\ trace[1].a = ret.arg
         /\ trace[1].res = ret.raw
         /\ heap[ret.raw].kind = heap[ret.arg].kind
         /\ heap[ret.raw].src = ret.arg
         /\ Cardinality(Holders(ret.raw)) = 1
    /\ \A c \in DOMAIN heap :
         heap[c].src # 0 =>
             /\ heap[c].src # c
             /\ \A x \in {c, heap[c].src} :
                  /\ Cardinality(Holders(x)) <= 1
                  /\ Holders(x) # {} => heap[x].disposed = 0
                  /\ Holders(x) = {} => heap[x].disposed = 1

C7_Witness ==
    /\ ret.op = "drop"
    /\ \E c \in DOMAIN heap :
         /\ heap[c].src # 0
         /\ heap[c].kind = "RemoteConnectOptions"
         /\ heap[heap[c].src].disposed = 1
         /\ heap[c].disposed = 0
         /\ Holders(c) # {}

\* C8: the setters commute and the last write wins: port then path
\* serializes like path then port, and setting a port (or a path) again
\* serializes like the value set last.
C8_SettersCommuteLastWins ==
    url # NoUrl =>
        /\ \A p \in Ports, q \in Paths :
             RemoteUrl_serialize(RemoteUrl_path(RemoteUrl_port(url, p), q))
               = RemoteUrl_serialize(RemoteUrl_port(RemoteUrl_path(url, q), p))
        /\ \A p1 \in Ports, p2 \in Ports :
             RemoteUrl_serialize(RemoteUrl_port(RemoteUrl_port(url, p1), p2))
               = RemoteUrl_serialize([url EXCEPT !.port = Some(p2)])
        /\ \A q1 \in Paths, q2 \in Paths :
             RemoteUrl_serialize(RemoteUrl_path(RemoteUrl_path(url, q1), q2))
               = RemoteUrl_serialize([url EXCEPT !.path = Some(q2)])

C8_Witness ==
    /\ url.port = Some(65535)
    /\ url.path = Some(<<"v","/","l">>)
    /\ cstr.tag = "CString"

\* C9: connecting with a host that contains a NUL byte fails with
\* EncodingError before any native call is made.
C9_NulHostEncodingError ==
    (ret.op = "connect_remote" /\ ret.nul) =>
        /\ ret.tag = "Err"
        /\ ret.val = "EncodingError"
        /\ trace = <<>>

\* C10: RemoteConnectOptions::serialize_url and RemoteUrl::serialize return
\* the same bytes for the same fields and panic on the same inputs.
C10_SerializersAgree ==
    (cstr # NotComputed /\ ocstr # NotComputed) => cstr = ocstr

C10_Witness ==
    /\ cstr.tag = "CString"
    /\ ocstr.tag = "CString"
    /\ url.scheme = "UnixConnect"
    /\ url.port.some
    /\ url.path.some

====
